---- MODULE Spec2Model ----
(***************************************************************************)
(* State-machine model of src/script.js, the main logic of the 3D plane    *)
(* game: the input handlers that write the shared `keys` map, and the      *)
(* animation loop that rotates the plane, moves it forward, clamps its     *)
(* altitude, recycles the mountains behind it and places the chase camera. *)
(*                                                                         *)
(* Numbers.  JavaScript numbers are modelled in fixed point: a length is   *)
(* an integer count of 1/Unit world units (0.2 is 2000), an angle is an    *)
(* integer count of centiradians (0.02 rad is 2), and a sine, a cosine or  *)
(* a scale factor is an integer count of 1/Unit.  Products are rounded to  *)
(* the nearest integer.                                                    *)
(***************************************************************************)
EXTENDS Integers, Sequences, FiniteSets, TLC

VARIABLES
  keys,        \* script.js:165  the shared map code -> held flag
  down,        \* history: the input sources pressed and not yet released
  plane,       \* script.js:78   plane.position (px,py,pz), plane.rotation (ry,rz)
  mountains,   \* script.js:146  the mountain pool
  camera,      \* script.js:23   camera position, look-at target and aspect
  renderer,    \* script.js:33   renderer output size
  rendered,    \* script.js:208  the pose last handed to renderer.render
  budget,      \* number of frames the model may still run
  recycledAt,  \* history: per mountain, plane x at its last recycle (or Never)
  descent      \* history: progress of an unbroken pitch-down run

vars == << keys, down, plane, mountains, camera, renderer, rendered,
           budget, recycledAt, descent >>

----------------------------------------------------------------------------
(* Bounds of the model *)

\* frames explored after the initial state
MaxTicks == 1
\* input sources (keys, on-screen buttons) pressed at the same time
MaxHeld == 1
\* mountains modelled; the loop body at script.js:149 and the one at
\* script.js:255 treat every one of the MOUNTAIN_COUNT = 50 cones alike
PoolSize == 1
\* largest rotation angle (centiradians, either sign) the model follows
MaxAngle == 400

----------------------------------------------------------------------------
(* Fixed-point arithmetic *)

Unit == 10 ^ 4

Abs(a) == IF a < 0 THEN -a ELSE a

\* a / b rounded to the nearest integer, halves away from zero (b > 0, even)
RoundDiv(a, b) ==
  IF a >= 0 THEN (a + b \div 2) \div b ELSE -(((-a) + b \div 2) \div b)

\* Unit * |sin(k / 100)| and Unit * |cos(k / 100)| for k = 0 .. 700
SinTable ==
  << 0, 100, 200, 300, 400, 500, 600, 699, 799, 899, 998, 1098,
     1197, 1296, 1395, 1494, 1593, 1692, 1790, 1889, 1987, 2085, 2182, 2280,
     2377, 2474, 2571, 2667, 2764, 2860, 2955, 3051, 3146, 3240, 3335, 3429,
     3523, 3616, 3709, 3802, 3894, 3986, 4078, 4169, 4259, 4350, 4439, 4529,
     4618, 4706, 4794, 4882, 4969, 5055, 5141, 5227, 5312, 5396, 5480, 5564,
     5646, 5729, 5810, 5891, 5972, 6052, 6131, 6210, 6288, 6365, 6442, 6518,
     6594, 6669, 6743, 6816, 6889, 6961, 7033, 7104, 7174, 7243, 7311, 7379,
     7446, 7513, 7578, 7643, 7707, 7771, 7833, 7895, 7956, 8016, 8076, 8134,
     8192, 8249, 8305, 8360, 8415, 8468, 8521, 8573, 8624, 8674, 8724, 8772,
     8820, 8866, 8912, 8957, 9001, 9044, 9086, 9128, 9168, 9208, 9246, 9284,
     9320, 9356, 9391, 9425, 9458, 9490, 9521, 9551, 9580, 9608, 9636, 9662,
     9687, 9711, 9735, 9757, 9779, 9799, 9819, 9837, 9854, 9871, 9887, 9901,
     9915, 9927, 9939, 9949, 9959, 9967, 9975, 9982, 9987, 9992, 9995, 9998,
     9999, 10000, 10000, 9998, 9996, 9992, 9988, 9982, 9976, 9969, 9960, 9951,
     9940, 9929, 9917, 9903, 9889, 9874, 9857, 9840, 9822, 9802, 9782, 9761,
     9738, 9715, 9691, 9666, 9640, 9613, 9585, 9556, 9526, 9495, 9463, 9430,
     9396, 9362, 9326, 9290, 9252, 9214, 9174, 9134, 9093, 9051, 9008, 8964,
     8919, 8874, 8827, 8780, 8731, 8682, 8632, 8581, 8529, 8477, 8423, 8369,
     8314, 8258, 8201, 8143, 8085, 8026, 7966, 7905, 7843, 7781, 7718, 7654,
     7589, 7523, 7457, 7390, 7322, 7254, 7185, 7115, 7044, 6973, 6901, 6828,
     6755, 6681, 6606, 6530, 6454, 6378, 6300, 6222, 6144, 6065, 5985, 5904,
     5823, 5742, 5660, 5577, 5494, 5410, 5325, 5240, 5155, 5069, 4983, 4896,
     4808, 4720, 4632, 4543, 4454, 4364, 4274, 4183, 4092, 4001, 3909, 3817,
     3724, 3631, 3538, 3444, 3350, 3255, 3161, 3066, 2970, 2875, 2779, 2683,
     2586, 2489, 2392, 2295, 2198, 2100, 2002, 1904, 1806, 1708, 1609, 1510,
     1411, 1312, 1213, 1114, 1014, 915, 815, 715, 616, 516, 416, 316,
     216, 116, 16, 84, 184, 284, 384, 484, 584, 684, 783, 883,
     982, 1082, 1181, 1281, 1380, 1479, 1577, 1676, 1775, 1873, 1971, 2069,
     2167, 2264, 2362, 2459, 2555, 2652, 2748, 2844, 2940, 3035, 3131, 3225,
     3320, 3414, 3508, 3601, 3694, 3787, 3880, 3971, 4063, 4154, 4245, 4335,
     4425, 4515, 4604, 4692, 4780, 4868, 4955, 5042, 5128, 5213, 5298, 5383,
     5467, 5550, 5633, 5716, 5797, 5879, 5959, 6039, 6119, 6197, 6276, 6353,
     6430, 6506, 6582, 6657, 6731, 6805, 6878, 6950, 7021, 7092, 7162, 7232,
     7301, 7369, 7436, 7502, 7568, 7633, 7697, 7761, 7823, 7885, 7946, 8007,
     8066, 8125, 8183, 8240, 8296, 8352, 8406, 8460, 8513, 8565, 8616, 8666,
     8716, 8764, 8812, 8859, 8905, 8950, 8994, 9037, 9080, 9121, 9162, 9201,
     9240, 9278, 9315, 9351, 9386, 9420, 9453, 9485, 9516, 9546, 9576, 9604,
     9631, 9658, 9683, 9708, 9731, 9754, 9775, 9796, 9816, 9834, 9852, 9868,
     9884, 9899, 9912, 9925, 9937, 9948, 9957, 9966, 9974, 9981, 9986, 9991,
     9995, 9997, 9999, 10000, 10000, 9998, 9996, 9993, 9989, 9983, 9977, 9970,
     9962, 9952, 9942, 9931, 9919, 9905, 9891, 9876, 9860, 9843, 9825, 9805,
     9785, 9764, 9742, 9719, 9695, 9670, 9644, 9617, 9589, 9560, 9531, 9500,
     9468, 9435, 9402, 9367, 9332, 9295, 9258, 9220, 9181, 9141, 9100, 9058,
     9015, 8971, 8926, 8881, 8835, 8787, 8739, 8690, 8640, 8589, 8538, 8485,
     8432, 8378, 8323, 8267, 8210, 8153, 8094, 8035, 7975, 7915, 7853, 7791,
     7728, 7664, 7599, 7534, 7468, 7401, 7333, 7265, 7196, 7126, 7055, 6984,
     6912, 6840, 6766, 6692, 6618, 6542, 6467, 6390, 6313, 6235, 6156, 6077,
     5997, 5917, 5836, 5755, 5673, 5590, 5507, 5423, 5339, 5254, 5169, 5083,
     4996, 4910, 4822, 4734, 4646, 4557, 4468, 4378, 4288, 4198, 4107, 4015,
     3924, 3831, 3739, 3646, 3553, 3459, 3365, 3271, 3176, 3081, 2986, 2890,
     2794, 2698, 2602, 2505, 2408, 2311, 2213, 2116, 2018, 1920, 1822, 1723,
     1625, 1526, 1427, 1328, 1229, 1129, 1030, 931, 831, 731, 631, 532,
     432, 332, 232, 132, 32, 68, 168, 268, 368, 468, 568, 668,
     767, 867, 967, 1066, 1165, 1265, 1364, 1463, 1562, 1660, 1759, 1857,
     1955, 2053, 2151, 2249, 2346, 2443, 2540, 2637, 2733, 2829, 2925, 3020,
     3115, 3210, 3305, 3399, 3493, 3586, 3680, 3772, 3865, 3957, 4048, 4140,
     4231, 4321, 4411, 4500, 4590, 4678, 4766, 4854, 4941, 5028, 5114, 5200,
     5285, 5369, 5454, 5537, 5620, 5703, 5784, 5866, 5946, 6026, 6106, 6185,
     6263, 6341, 6418, 6494, 6570 >>

CosTable ==
  << 10000, 10000, 9998, 9996, 9992, 9988, 9982, 9976, 9968, 9960, 9950, 9940,
     9928, 9916, 9902, 9888, 9872, 9856, 9838, 9820, 9801, 9780, 9759, 9737,
     9713, 9689, 9664, 9638, 9611, 9582, 9553, 9523, 9492, 9460, 9428, 9394,
     9359, 9323, 9287, 9249, 9211, 9171, 9131, 9090, 9048, 9004, 8961, 8916,
     8870, 8823, 8776, 8727, 8678, 8628, 8577, 8525, 8473, 8419, 8365, 8309,
     8253, 8196, 8139, 8080, 8021, 7961, 7900, 7838, 7776, 7712, 7648, 7584,
     7518, 7452, 7385, 7317, 7248, 7179, 7109, 7038, 6967, 6895, 6822, 6749,
     6675, 6600, 6524, 6448, 6372, 6294, 6216, 6137, 6058, 5978, 5898, 5817,
     5735, 5653, 5570, 5487, 5403, 5319, 5234, 5148, 5062, 4976, 4889, 4801,
     4713, 4625, 4536, 4447, 4357, 4267, 4176, 4085, 3993, 3902, 3809, 3717,
     3624, 3530, 3436, 3342, 3248, 3153, 3058, 2963, 2867, 2771, 2675, 2579,
     2482, 2385, 2288, 2190, 2092, 1994, 1896, 1798, 1700, 1601, 1502, 1403,
     1304, 1205, 1106, 1006, 907, 807, 707, 608, 508, 408, 308, 208,
     108, 8, 92, 192, 292, 392, 492, 592, 691, 791, 891, 990,
     1090, 1189, 1288, 1388, 1487, 1585, 1684, 1782, 1881, 1979, 2077, 2175,
     2272, 2369, 2466, 2563, 2660, 2756, 2852, 2948, 3043, 3138, 3233, 3327,
     3421, 3515, 3609, 3702, 3795, 3887, 3979, 4070, 4161, 4252, 4342, 4432,
     4522, 4611, 4699, 4787, 4875, 4962, 5048, 5135, 5220, 5305, 5390, 5474,
     5557, 5640, 5722, 5804, 5885, 5966, 6046, 6125, 6204, 6282, 6359, 6436,
     6512, 6588, 6663, 6737, 6811, 6883, 6956, 7027, 7098, 7168, 7237, 7306,
     7374, 7441, 7508, 7573, 7638, 7702, 7766, 7828, 7890, 7951, 8011, 8071,
     8130, 8187, 8244, 8301, 8356, 8410, 8464, 8517, 8569, 8620, 8670, 8720,
     8768, 8816, 8863, 8908, 8953, 8998, 9041, 9083, 9124, 9165, 9204, 9243,
     9281, 9318, 9353, 9388, 9422, 9455, 9487, 9518, 9549, 9578, 9606, 9633,
     9660, 9685, 9710, 9733, 9755, 9777, 9797, 9817, 9836, 9853, 9870, 9885,
     9900, 9914, 9926, 9938, 9948, 9958, 9967, 9974, 9981, 9987, 9991, 9995,
     9998, 9999, 10000, 10000, 9998, 9996, 9993, 9988, 9983, 9977, 9969, 9961,
     9952, 9941, 9930, 9918, 9904, 9890, 9875, 9859, 9841, 9823, 9804, 9784,
     9762, 9740, 9717, 9693, 9668, 9642, 9615, 9587, 9558, 9528, 9497, 9466,
     9433, 9399, 9365, 9329, 9293, 9255, 9217, 9178, 9137, 9096, 9054, 9011,
     8968, 8923, 8877, 8831, 8783, 8735, 8686, 8636, 8585, 8534, 8481, 8428,
     8373, 8318, 8262, 8206, 8148, 8090, 8030, 7970, 7910, 7848, 7786, 7723,
     7659, 7594, 7529, 7462, 7395, 7328, 7259, 7190, 7120, 7050, 6978, 6907,
     6834, 6761, 6686, 6612, 6536, 6460, 6384, 6306, 6229, 6150, 6071, 5991,
     5911, 5830, 5748, 5666, 5583, 5500, 5416, 5332, 5247, 5162, 5076, 4990,
     4903, 4815, 4727, 4639, 4550, 4461, 4371, 4281, 4190, 4099, 4008, 3916,
     3824, 3731, 3638, 3545, 3451, 3357, 3263, 3168, 3073, 2978, 2882, 2787,
     2690, 2594, 2497, 2400, 2303, 2206, 2108, 2010, 1912, 1814, 1715, 1617,
     1518, 1419, 1320, 1221, 1122, 1022, 923, 823, 723, 623, 524, 424,
     324, 224, 124, 24, 76, 176, 276, 376, 476, 576, 676, 775,
     875, 975, 1074, 1173, 1273, 1372, 1471, 1570, 1668, 1767, 1865, 1963,
     2061, 2159, 2257, 2354, 2451, 2548, 2644, 2741, 2837, 2932, 3028, 3123,
     3218, 3312, 3407, 3500, 3594, 3687, 3780, 3872, 3964, 4056, 4147, 4238,
     4328, 4418, 4508, 4597, 4685, 4773, 4861, 4948, 5035, 5121, 5206, 5292,
     5376, 5460, 5544, 5627, 5709, 5791, 5872, 5953, 6033, 6112, 6191, 6269,
     6347, 6424, 6500, 6576, 6651, 6725, 6799, 6872, 6944, 7016, 7087, 7157,
     7226, 7295, 7363, 7430, 7497, 7563, 7628, 7692, 7756, 7818, 7880, 7942,
     8002, 8061, 8120, 8178, 8235, 8292, 8347, 8402, 8456, 8509, 8561, 8612,
     8662, 8712, 8761, 8808, 8855, 8901, 8946, 8991, 9034, 9076, 9118, 9158,
     9198, 9237, 9275, 9312, 9348, 9383, 9417, 9450, 9482, 9514, 9544, 9573,
     9602, 9629, 9656, 9681, 9706, 9729, 9752, 9774, 9794, 9814, 9833, 9850,
     9867, 9883, 9898, 9911, 9924, 9936, 9947, 9957, 9965, 9973, 9980, 9986,
     9991, 9994, 9997, 9999, 10000, 10000, 9999, 9996, 9993, 9989, 9984, 9978,
     9971, 9962, 9953, 9943, 9932, 9920, 9907, 9892, 9877, 9861, 9844, 9826,
     9807, 9787, 9766, 9744, 9721, 9697, 9672, 9646, 9619, 9591, 9563, 9533,
     9502, 9471, 9438, 9405, 9370, 9335, 9298, 9261, 9223, 9184, 9144, 9103,
     9061, 9018, 8975, 8930, 8885, 8838, 8791, 8743, 8694, 8644, 8593, 8542,
     8489, 8436, 8382, 8327, 8271, 8215, 8157, 8099, 8040, 7980, 7919, 7858,
     7796, 7733, 7669, 7604, 7539 >>

\* Unit * sin(a / 100): the sine is odd, positive up to 3.14 and from 6.29
\* on, negative between
Sin(a) ==
  LET k == Abs(a)
      v == IF k <= 314 \/ k >= 629 THEN SinTable[k + 1] ELSE -SinTable[k + 1]
  IN  IF a < 0 THEN -v ELSE v

\* Unit * cos(a / 100): the cosine is even, positive up to 1.57 and from
\* 4.72 on, negative between
Cos(a) ==
  LET k == Abs(a)
  IN  IF k <= 157 \/ k >= 472 THEN CosTable[k + 1] ELSE -CosTable[k + 1]

----------------------------------------------------------------------------
(* Program constants, in model units *)

forwardSpeed == 2000
rotationSpeed == 2
initialAltitude == 20000
altitudeMin == 5000
altitudeMax == 200000
groundOffset == 5000
BEHIND_THRESHOLD == 1000000
RECYCLE_DISTANCE == 4000000
initialWindowMin == -2000000
cameraOffset == << -100000, 50000, 0 >>

\* the key codes updateControls reads; keys starts empty and a code it
\* does not hold reads as undefined, which the tests of script.js:218-228
\* take as false, so the flag of such a code is FALSE here
Codes ==
  { "KeyA", "KeyD", "KeyW", "KeyS",
    "ArrowLeft", "ArrowRight", "ArrowUp", "ArrowDown" }

Buttons == { "up-btn", "down-btn", "left-btn", "right-btn" }

\* script.js:192-195, the code each on-screen button is bound to (the
\* four elements exist in the page, so bindControlButton does not return
\* early)
ButtonCode(b) ==
  CASE b = "up-btn" -> "ArrowUp"
    [] b = "down-btn" -> "ArrowDown"
    [] b = "left-btn" -> "ArrowLeft"
    [] b = "right-btn" -> "ArrowRight"

\* Math.random(): the start-up loop draws three numbers per mountain
\* (script.js:150, 156, 158), here height, x and z already scaled to
\* [1, 4), [-200, 200) and [-20, 20); the model follows these draws
behindDraw == [ h |-> 10000, x |-> initialWindowMin, z |-> -200000 ]
aheadDraw == [ h |-> 25000, x |-> 1999999, z |-> 150000 ]
InitDraws == { behindDraw, aheadDraw }
\* Math.random(): a recycle draws two numbers (script.js:259, 261), here z
\* and newHeight already scaled; the model follows these draws
Draws ==
  { [ z |-> -200000, h |-> 25000 ],
    [ z |-> 150000, h |-> 10000 ] }
\* sizes the browser window takes
Viewports == { << 800, 600 >>, << 400, 800 >> }

Pool == 1 .. PoolSize

----------------------------------------------------------------------------
(* Input handlers *)

\* script.js:180-185, the assignment made by the handler setKey(state)
setKey(k, code, state) == [k EXCEPT ![code] = state]

\* script.js:166-168; a repeated keydown of a key already down sets its
\* flag again
KeyDown(c) ==
  /\ Cardinality(down \cup {c}) <= MaxHeld
  /\ keys' = [keys EXCEPT ![c] = TRUE]
  /\ down' = down \cup {c}
  /\ UNCHANGED << plane, mountains, camera, renderer, rendered, budget,
                  recycledAt, descent >>

\* script.js:169-171
KeyUp(c) ==
  /\ keys' = [keys EXCEPT ![c] = FALSE]
  /\ down' = down \ {c}
  /\ UNCHANGED << plane, mountains, camera, renderer, rendered, budget,
                  recycledAt, descent >>

\* script.js:186
PointerDown(b) ==
  /\ Cardinality(down \cup {b}) <= MaxHeld
  /\ keys' = setKey(keys, ButtonCode(b), TRUE)
  /\ down' = down \cup {b}
  /\ UNCHANGED << plane, mountains, camera, renderer, rendered, budget,
                  recycledAt, descent >>

\* script.js:187; like pointerleave and pointercancel, the event also
\* reaches a button that was not pressed (a pointer pressed elsewhere, or
\* only hovering, over it)
PointerUp(b) ==
  /\ keys' = setKey(keys, ButtonCode(b), FALSE)
  /\ down' = down \ {b}
  /\ UNCHANGED << plane, mountains, camera, renderer, rendered, budget,
                  recycledAt, descent >>

\* PointerLeave with the handler registered as setKey(true): the flag is
\* set, not cleared, when the pointer leaves the button
PointerLeave_setsFlag(b) ==
  /\ keys' = setKey(keys, ButtonCode(b), TRUE)
  /\ down' = down \ {b}
  /\ UNCHANGED << plane, mountains, camera, renderer, rendered, budget,
                  recycledAt, descent >>

\* script.js:188
PointerLeave(b) ==
  /\ keys' = setKey(keys, ButtonCode(b), FALSE)
  /\ down' = down \ {b}
  /\ UNCHANGED << plane, mountains, camera, renderer, rendered, budget,
                  recycledAt, descent >>

\* script.js:189
PointerCancel(b) ==
  /\ keys' = setKey(keys, ButtonCode(b), FALSE)
  /\ down' = down \ {b}
  /\ UNCHANGED << plane, mountains, camera, renderer, rendered, budget,
                  recycledAt, descent >>

\* script.js:282-286
onWindowResize ==
  /\ \E v \in Viewports :
       /\ camera' = [camera EXCEPT !.aspect = v]
       /\ renderer' = v
  /\ UNCHANGED << keys, down, plane, mountains, rendered, budget,
                  recycledAt, descent >>

----------------------------------------------------------------------------
(* The animation loop *)

\* YawLeftHeld reading the letter key of the opposite control
YawLeftHeld_wrongKey(k) == k["KeyD"] \/ k["ArrowLeft"]

\* the four logical controls as updateControls reads them, script.js:218-228
YawLeftHeld(k) == k["KeyA"] \/ k["ArrowLeft"]
YawRightHeld(k) == k["KeyD"] \/ k["ArrowRight"]
PitchUpHeld(k) == k["KeyW"] \/ k["ArrowUp"]
PitchDownHeld(k) == k["KeyS"] \/ k["ArrowDown"]

\* script.js:218-220
yawLeft(k, p) ==
  IF YawLeftHeld(k) THEN [p EXCEPT !.ry = @ + rotationSpeed] ELSE p

\* script.js:221-223
yawRight(k, p) ==
  IF YawRightHeld(k) THEN [p EXCEPT !.ry = @ - rotationSpeed] ELSE p

\* script.js:225-227
pitchUp(k, p) ==
  IF PitchUpHeld(k) THEN [p EXCEPT !.rz = @ + rotationSpeed] ELSE p

\* script.js:228-230
pitchDown(k, p) ==
  IF PitchDownHeld(k) THEN [p EXCEPT !.rz = @ - rotationSpeed] ELSE p

\* updateControls with the yaw-left test inverted: the plane turns left in
\* every frame in which yaw-left is not held
updateControls_invertedTest(k, p) ==
  pitchDown(k, pitchUp(k, yawRight(k,
    IF ~YawLeftHeld(k) THEN [p EXCEPT !.ry = @ + rotationSpeed] ELSE p)))

\* script.js:216-231, the four tests in the order of the code
updateControls(k, p) == pitchDown(k, pitchUp(k, yawRight(k, yawLeft(k, p))))

\* v turned about the z axis by the angle of cosine c and sine s
rotateZ(v, c, s) ==
  << RoundDiv(v[1] * c - v[2] * s, Unit),
     RoundDiv(v[1] * s + v[2] * c, Unit),
     v[3] >>

\* v turned about the y axis by the angle of cosine c and sine s
rotateY(v, c, s) ==
  << RoundDiv(v[1] * c + v[3] * s, Unit),
     v[2],
     RoundDiv(v[3] * c - v[1] * s, Unit) >>

\* v.applyQuaternion(plane.quaternion): the quaternion of the Euler angles
\* (0, ry, rz) in three.js's default order XYZ turns v about the z axis by
\* rz, then about the y axis by ry
applyQuaternion(v, p) ==
  rotateY(rotateZ(v, Cos(p.rz), Sin(p.rz)), Cos(p.ry), Sin(p.ry))

\* script.js:240-242; the rotated unit vector has length one, which
\* normalize() leaves as it is
Forward(p) == applyQuaternion(<< Unit, 0, 0 >>, p)

\* plane.position
Position(p) == << p.px, p.py, p.pz >>

\* script.js:244, plane.position.addScaledVector(forward, forwardSpeed)
addScaledVector(p, forward) ==
  [p EXCEPT !.px = @ + RoundDiv(forward[1] * forwardSpeed, Unit),
            !.py = @ + RoundDiv(forward[2] * forwardSpeed, Unit),
            !.pz = @ + RoundDiv(forward[3] * forwardSpeed, Unit)]

\* script.js:246
floorClamp(p) == IF p.py < altitudeMin THEN [p EXCEPT !.py = altitudeMin] ELSE p

\* script.js:247
ceilingClamp(p) ==
  IF p.py > altitudeMax THEN [p EXCEPT !.py = altitudeMax] ELSE p

\* updatePlane without the lower altitude test of script.js:246
updatePlane_noFloor(p) == ceilingClamp(addScaledVector(p, Forward(p)))

\* script.js:238-248
updatePlane(p) == ceilingClamp(floorClamp(addScaledVector(p, Forward(p))))

\* script.js:256, the test that selects a mountain for recycling
Behind(p, m) == p.px - m.x > BEHIND_THRESHOLD

\* script.js:262-264, the mountain rescaled to the new height drawn
rescale(m, newHeight, scale) ==
  [m EXCEPT !.scale = scale,
            !.y = RoundDiv(newHeight * scale, 2 * Unit) - groundOffset]

\* script.js:256-265, the loop body for one mountain; d holds the random
\* numbers drawn
updateMountain(p, m, d) ==
  IF Behind(p, m)
  THEN rescale([m EXCEPT !.x = @ + RECYCLE_DISTANCE, !.z = d.z],
               d.h, RoundDiv(d.h * Unit, m.height))
  ELSE m

\* script.js:254-267
updateMountains(p, ms, d) == [i \in Pool |-> updateMountain(p, ms[i], d[i])]

\* script.js:272-279
updateCamera(p, cam) ==
  [cam EXCEPT !.position = [i \in 1 .. 3 |->
                              Position(p)[i] + applyQuaternion(cameraOffset, p)[i]],
              !.lookAt = Position(p)]

\* history: an unbroken run of frames with pitch-down held is "held" until
\* the plane touches the altitude floor in it, and "floor" from then on
descentStep(k, old, p) ==
  IF PitchDownHeld(k)
  THEN IF old = "floor" \/ p.py = altitudeMin THEN "floor" ELSE "held"
  ELSE "none"

\* script.js:208, renderer.render(scene, camera): the frame drawn
render(cam) == << [ position |-> cam.position, lookAt |-> cam.lookAt ] >>

\* script.js:206-208, the rest of a frame once the plane is at p: the
\* mountains are recycled, the camera placed and the scene drawn
drawFrame(k, s, d, p, cam) ==
  [ plane |-> p,
    mountains |-> updateMountains(p, s.mountains, d),
    camera |-> cam,
    rendered |-> render(cam),
    recycledAt |-> [i \in Pool |->
                      IF Behind(p, s.mountains[i])
                      THEN << p.px >> ELSE s.recycledAt[i]],
    descent |-> descentStep(k, s.descent, p) ]

\* animate with updatePlane called before updateControls: the plane moves
\* along the orientation of the frame before
animate_moveFirst(k, s, d) ==
  drawFrame(k, s, d, updateControls(k, updatePlane(s.plane)),
            updateCamera(updateControls(k, updatePlane(s.plane)), s.camera))

\* script.js:202-209, one frame: the simulation state s after the frame,
\* given the held flags k and the random numbers d drawn per mountain
animate(k, s, d) ==
  drawFrame(k, s, d, updatePlane(updateControls(k, s.plane)),
            updateCamera(updatePlane(updateControls(k, s.plane)), s.camera))

\* the simulation state held in the variables
Sim ==
  [ plane |-> plane, mountains |-> mountains, camera |-> camera,
    rendered |-> rendered, recycledAt |-> recycledAt, descent |-> descent ]

\* the display-refresh callback, script.js:202-209: a frame runs to its
\* end before the browser delivers another event
Tick ==
  /\ budget > 0
  /\ \E d \in [Pool -> Draws] :
       \E s \in { animate(keys, Sim, d) } :
         /\ Abs(s.plane.ry) <= MaxAngle
         /\ Abs(s.plane.rz) <= MaxAngle
         /\ plane' = s.plane
         /\ mountains' = s.mountains
         /\ camera' = s.camera
         /\ rendered' = s.rendered
         /\ recycledAt' = s.recycledAt
         /\ descent' = s.descent
  /\ budget' = budget - 1
  /\ UNCHANGED << keys, down, renderer >>

----------------------------------------------------------------------------
(* Initial state and specification *)

\* script.js:150-159, the mountain the start-up loop builds from the draw d
newMountain(d) ==
  [ x |-> d.x, y |-> RoundDiv(d.h, 2) - groundOffset, z |-> d.z,
    height |-> d.h, scale |-> Unit ]

\* script.js:149-162, the mountains the start-up loop can build
InitMountains == { newMountain(d) : d \in InitDraws }

\* script.js:78-142
InitPlane == [ px |-> 0, py |-> initialAltitude, pz |-> 0, ry |-> 0, rz |-> 0 ]

\* script.js:23-29
InitCamera ==
  [ position |-> << 0, 20000, -80000 >>,
    lookAt |-> << 0, 20000, -90000 >>,
    aspect |-> << 800, 600 >> ]

Init ==
  /\ keys = [c \in Codes |-> FALSE]
  /\ down = {}
  /\ plane = InitPlane
  /\ mountains \in [Pool -> InitMountains]
  /\ camera = InitCamera
  /\ renderer = << 800, 600 >>
  /\ rendered = << >>
  /\ budget = MaxTicks
  /\ recycledAt = [i \in Pool |-> << >>]
  /\ descent = "none"

----------------------------------------------------------------------------
(* States deep in a flight *)

\* the held flags when exactly the codes in cs are down
Holding(cs) == [c \in Codes |-> c \in cs]

\* the random numbers the mountains draw in the flights below
flightDraw == [i \in Pool |-> [ z |-> -200000, h |-> 25000 ]]

\* the element of a one-element set
The(S) == CHOOSE x \in S : TRUE

\* the simulation state after n frames of animate with the flags k; the
\* frames are run in two halves, the second from the state the first ends in
RECURSIVE Frames(_, _, _)
Frames(k, s, n) ==
  IF n = 0 THEN s
  ELSE IF n = 1 THEN animate(k, s, flightDraw)
  ELSE The({ Frames(k, half, n - n \div 2) : half \in { Frames(k, s, n \div 2) } })

\* the simulation state after a flight: a sequence of legs, each a number
\* of frames n flown holding the codes cs
RECURSIVE Fly(_, _)
Fly(s, legs) ==
  IF legs = << >> THEN s
  ELSE The({ Fly(t, Tail(legs)) :
             t \in { Frames(Holding(Head(legs).cs), s, Head(legs).n) } })

\* the simulation state the program starts in, with every mountain built
\* from the draw d
StartSim(d) ==
  [ plane |-> InitPlane,
    mountains |-> [i \in Pool |-> newMountain(d)],
    camera |-> InitCamera,
    rendered |-> << >>,
    recycledAt |-> [i \in Pool |-> << >>],
    descent |-> "none" ]

\* the program is in simulation state s at the end of a flight whose last
\* leg held the codes cs
InFlight(s, cs) ==
  /\ keys = Holding(cs)
  /\ down = cs
  /\ plane = s.plane
  /\ mountains = s.mountains
  /\ camera = s.camera
  /\ renderer = << 800, 600 >>
  /\ rendered = s.rendered
  /\ budget = MaxTicks
  /\ recycledAt = s.recycledAt
  /\ descent = s.descent

Next ==
  \/ \E c \in Codes : KeyDown(c)
  \/ \E c \in Codes : KeyUp(c)
  \/ \E b \in Buttons : PointerDown(b)
  \/ \E b \in Buttons : PointerUp(b)
  \/ \E b \in Buttons : PointerLeave(b)
  \/ \E b \in Buttons : PointerCancel(b)
  \/ onWindowResize
  \/ Tick

\* the program from its start
Spec == Init /\ [][Next]_vars

\* pitch-down held from the start for 27 frames: the plane is 0.0256 above
\* the altitude floor, diving
floorDive == << [ cs |-> {"KeyS"}, n |-> 27 ] >>

\* pitch-up held from the start for 124 frames: the plane is 0.0491 below
\* the altitude ceiling, climbing
ceilingClimb == << [ cs |-> {"KeyW"}, n |-> 124 ] >>

\* one frame of pitch-down, 349 frames with nothing held, one frame of
\* pitch-up: the plane is level at altitude 0.6
toLowLevel ==
  << [ cs |-> {"KeyS"}, n |-> 1 ], [ cs |-> {}, n |-> 349 ],
     [ cs |-> {"KeyW"}, n |-> 1 ] >>

\* from level flight at altitude 0.6, pitch-down held for 157 frames
longDive == toLowLevel \o << [ cs |-> {"KeyS"}, n |-> 157 ] >>

\* 1499 frames straight ahead, then one frame of pitch-up: the plane is at
\* x = 300
longCruise == << [ cs |-> {}, n |-> 1499 ], [ cs |-> {"KeyW"}, n |-> 1 ] >>

\* yaw-left held for 157 frames (a half turn), then 999 frames with nothing
\* held: the plane flies towards -x and is at x = -199.98
turnBack == << [ cs |-> {"KeyA"}, n |-> 157 ], [ cs |-> {}, n |-> 999 ] >>

\* the program from its start, or near the altitude floor or ceiling
InitFlight ==
  \/ Init
  \/ InFlight(Fly(StartSim(behindDraw), floorDive), {"KeyS"})
  \/ InFlight(Fly(StartSim(behindDraw), ceilingClimb), {"KeyW"})

SpecFlight == InitFlight /\ [][Next]_vars

\* the program at the end of the long dive
InitPinned == InFlight(Fly(StartSim(behindDraw), longDive), {"KeyS"})

SpecPinned == InitPinned /\ [][Next]_vars

\* the program at the end of the long cruise
InitRecycle == InFlight(Fly(StartSim(behindDraw), longCruise), {"KeyW"})

SpecRecycle == InitRecycle /\ [][Next]_vars

\* the program after turning back
InitReverse == InFlight(Fly(StartSim(aheadDraw), turnBack), {})

SpecReverse == InitReverse /\ [][Next]_vars

----------------------------------------------------------------------------
(* Properties *)

\* a frame has run in this step
FrameRan == budget' = budget - 1

\* the distance one frame moves the plane along each axis
Advance(p) ==
  [i \in 1 .. 3 |-> RoundDiv(Forward(p)[i] * forwardSpeed, Unit)]

NoControlHeld(k) ==
  ~YawLeftHeld(k) /\ ~YawRightHeld(k) /\ ~PitchUpHeld(k) /\ ~PitchDownHeld(k)

\* C1: after every run of updatePlane, whatever was pressed or released
\* before it, the altitude of the plane lies between 0.5 and 20.
AltitudeClamped == altitudeMin <= plane.py /\ plane.py <= altitudeMax

\* C1 witness: a frame has run and left the diving plane on the floor
\* (from 0.5256 the frame's dive of more than 0.1 ends below 0.5).
FloorClampActed ==
  budget < MaxTicks /\ plane.py = altitudeMin /\ Advance(plane)[2] < -1000

\* C2, as claimed: at all times, the initial state included, no mountain is
\* more than 100 + 0.2 behind the plane in x.
BehindBound ==
  \A i \in Pool : plane.px - mountains[i].x <= BEHIND_THRESHOLD + forwardSpeed

\* C3, as claimed: a mountain recycled in one frame is not recycled again
\* before the plane has advanced at least 400 - 100 = 300 in x.
RecycleSpacing ==
  [][\A i \in Pool :
       ( /\ FrameRan
         /\ Behind(plane', mountains[i])
         /\ recycledAt[i] # << >> )
       => plane'.px - recycledAt[i][1] >= RECYCLE_DISTANCE - BEHIND_THRESHOLD]_vars

\* C4, as claimed: the base of every mountain (its centre height less half
\* of its scaled geometry height) rests on the ground plane at -0.5.
GroundResting ==
  \A i \in Pool :
    mountains[i].y - RoundDiv(mountains[i].height * mountains[i].scale, 2 * Unit)
      = -groundOffset

\* C5, as claimed: once the plane has reached the floor in an unbroken run
\* of frames with pitch-down held, it stays at 0.5 while the run lasts.
PinnedAtFloor == descent = "floor" => plane.py = altitudeMin

\* C6, as claimed: a frame with no control held leaves yaw and pitch alone
\* and adds exactly forwardSpeed times the forward vector to the position.
NoInputAdvance ==
  [][(FrameRan /\ NoControlHeld(keys))
       => /\ plane'.ry = plane.ry
          /\ plane'.rz = plane.rz
          /\ \A i \in 1 .. 3 :
               Position(plane')[i] = Position(plane)[i] + Advance(plane)[i]]_vars

\* the altitude y brought back into the band [0.5, 20]
Banded(y) ==
  IF y < altitudeMin THEN altitudeMin ELSE IF y > altitudeMax THEN altitudeMax ELSE y

\* C6, amended: a frame with no control held leaves yaw and pitch alone,
\* adds exactly forwardSpeed times the forward vector to x and z, and sets
\* the altitude to the old altitude plus forwardSpeed times the forward
\* vector's y, brought back into [0.5, 20].
NoInputAdvanceClamped ==
  [][(FrameRan /\ NoControlHeld(keys))
       => /\ plane'.ry = plane.ry
          /\ plane'.rz = plane.rz
          /\ plane'.px = plane.px + Advance(plane)[1]
          /\ plane'.pz = plane.pz + Advance(plane)[3]
          /\ plane'.py = Banded(plane.py + Advance(plane)[2])]_vars

\* C6 witness: the dive's pitch of -0.54 rad is unchanged, nothing is
\* held, and a frame has put the plane on the floor: a frame without input
\* whose altitude step was cut short.
NoInputFrameAtFloor ==
  /\ budget < MaxTicks
  /\ NoControlHeld(keys)
  /\ plane.ry = 0
  /\ plane.rz = -54
  /\ plane.py = altitudeMin

\* C7: a pointerleave or a pointercancel on an on-screen button leaves the
\* button's flag false and every other flag as it was, which is what a
\* pointerup on the button does.
LeaveAndCancelRelease ==
  [][\A b \in Buttons :
       (PointerLeave(b) \/ PointerCancel(b))
       => /\ keys'[ButtonCode(b)] = FALSE
          /\ \A c \in Codes \ {ButtonCode(b)} : keys'[c] = keys[c]
          /\ keys' = setKey(keys, ButtonCode(b), FALSE)]_vars

\* C7 witness: the flag of a button is false although the arrow key of the
\* same code is still down, which only a release event on the button (the
\* key was pressed first, nothing has released it) brings about.
ButtonReleasedOverHeldKey ==
  \E b \in Buttons :
    /\ ButtonCode(b) \in down
    /\ b \notin down
    /\ keys[ButtonCode(b)] = FALSE

\* C8: a frame turns the plane by the flags held, moves it along the
\* orientation that same frame produced, recycles the mountains against the
\* new position, places the camera at the new position plus the offset
\* (-10, 5, 0) turned by the new orientation, and hands that pose to the
\* renderer; the frame changes no flag and no viewport setting.
FrameOrder ==
  [][FrameRan
       => /\ plane'.ry = updateControls(keys, plane).ry
          /\ plane'.rz = updateControls(keys, plane).rz
          /\ plane'.px = plane.px + Advance(plane')[1]
          /\ plane'.pz = plane.pz + Advance(plane')[3]
          /\ plane'.py = Banded(plane.py + Advance(plane')[2])
          /\ \A i \in Pool :
               \E d \in Draws : mountains'[i] = updateMountain(plane', mountains[i], d)
          /\ \A i \in 1 .. 3 :
               camera'.position[i] =
                 Position(plane')[i] + applyQuaternion(cameraOffset, plane')[i]
          /\ camera'.lookAt = Position(plane')
          /\ rendered' = << [ position |-> camera'.position,
                              lookAt |-> camera'.lookAt ] >>
          /\ keys' = keys
          /\ renderer' = renderer
          /\ camera'.aspect = camera.aspect]_vars

\* C8 witness: a frame has run with a control held (the plane is turned)
\* and the renderer holds the camera pose of that frame.
TurnedFrameRendered ==
  /\ budget < MaxTicks
  /\ plane.ry # 0 \/ plane.rz # 0
  /\ rendered = << [ position |-> camera.position, lookAt |-> camera.lookAt ] >>

\* C9, as claimed: every mountain stays within 400 of the plane in x.
TerrainWindow ==
  \A i \in Pool : Abs(mountains[i].x - plane.px) <= RECYCLE_DISTANCE

\* the letter key, the arrow key and the on-screen button of each control
ControlSources ==
  [ yawLeft |-> { "KeyA", "ArrowLeft", "left-btn" },
    yawRight |-> { "KeyD", "ArrowRight", "right-btn" },
    pitchUp |-> { "KeyW", "ArrowUp", "up-btn" },
    pitchDown |-> { "KeyS", "ArrowDown", "down-btn" } ]

Controls == DOMAIN ControlSources

\* what updateControls reads for a control
ControlHeld(ctl, k) ==
  CASE ctl = "yawLeft" -> YawLeftHeld(k)
    [] ctl = "yawRight" -> YawRightHeld(k)
    [] ctl = "pitchUp" -> PitchUpHeld(k)
    [] ctl = "pitchDown" -> PitchDownHeld(k)

\* C10, as claimed: a control reads as held exactly when one of its sources
\* has been pressed and not yet released.
ControlsMirrorSources ==
  \A ctl \in Controls :
    ControlHeld(ctl, keys) <=> (ControlSources[ctl] \cap down # {})

\* C10, amended: a control reads as held only when one of its sources has
\* been pressed and not yet released; a letter key's flag is true exactly
\* while the key is down; an arrow code's flag is the state set by the last
\* event on the code, so it is true only while the key or the button of
\* the code is down.
HeldOnlyWhileASourceIsDown ==
  /\ \A ctl \in Controls :
       ControlHeld(ctl, keys) => (ControlSources[ctl] \cap down # {})
  /\ \A c \in { "KeyA", "KeyD", "KeyW", "KeyS" } : keys[c] <=> c \in down
  /\ \A b \in Buttons :
       keys[ButtonCode(b)] => (ButtonCode(b) \in down \/ b \in down)

\* C10 witness: the on-screen button alone drives its control.
ButtonDrivesControl ==
  /\ "up-btn" \in down
  /\ "ArrowUp" \notin down
  /\ PitchUpHeld(keys)

====
